---- MODULE Spec2Model ----
(***************************************************************************)
(* rwal: a 16-slot terminal colorscheme derived from an image.             *)
(*                                                                         *)
(* The module models                                                       *)
(*   - config.rs : Config, Config::cache_string, rgb_to_hex                *)
(*   - rwal.rs   : mix_colors, sort_by_hue, Rwal::prepare_colors,          *)
(*                 Rwal::generate_colorscheme, Colorscheme::into_array     *)
(*   - backends  : ColorZ / ColorThief generate_palette                    *)
(*   - main.rs   : one invocation of the program as a sequence of file     *)
(*                 system steps, run sequentially (Spec) or two at a time  *)
(*                 (SpecRace)                                              *)
(*   - main.rs   : the Config from the config file and the flags, and the  *)
(*                 pipeline on it (SpecPipeline); sort_by_hue (SpecSort)   *)
(*                                                                         *)
(* Strings are TLA+ strings.  A colour is a triple <<r, g, b>> of 0..255.  *)
(* An f32 setting is held in hundredths (40 stands for 0.4).               *)
(***************************************************************************)
EXTENDS Integers, Sequences, FiniteSets, TLC

VARIABLES
    \* ---- the file system (dirs.rs names the three locations) ----
    cache,      \* PREV_COLORSCHEMES_DIR: file name -> contents, for the entries that exist
    current,    \* CURRENT_COLORSCHEME_FILE: [exists, data]
    preview,    \* HTML_PREVIEW_FILE: [exists, data]
    \* ---- the invocations of main() ----
    pc,         \* process -> position in main()
    inv,        \* process -> the invocation's inputs and locals
    \* ---- history of the runs (observation only) ----
    hist,
    \* ---- inputs of the pure functions, one group per specification ----
    cfgA, cfgB, nameA, nameB,      \* two (Config, image name) pairs      (SpecKey)
    keyA, keyB,                    \* their cache file names ("": not computed yet)
    mixA, mixB, mixP, mixOut,      \* two colours, a strength, the blend  (SpecMix)
    synPal, synCfg, synOut,        \* a palette, a Rwal, its Colorscheme  (SpecSynth)
    beKind, beColors, beOut,       \* a backend call and its result       (SpecBackend)
    quantLib,                      \* the behaviour of the quantizer libraries
    \* ---- one invocation from the config file to the Colorscheme (SpecPipeline) ----
    stFile,     \* the config file: [kind |-> "missing"] or [kind |-> "toml", config]
    stFlags,    \* the command line: flag -> <<>> (not given) or <<value>>
    stConfig,   \* the Config in main(), as far as stPc says
    stPixels,   \* the samples of the decoded, resized image
    stPc,       \* "load", "flags", "prepare", "generate", "done"
    stKept,     \* the HSV samples that passed the skip filters
    stPrepared, \* the clamped HSV samples and what prepare_colors returns
    stResult,   \* what generate_colorscheme returns
    \* ---- a call of sort_by_hue (SpecSort) ----
    sortIn,     \* the palette handed to sort_by_hue
    sortOut     \* [called |-> FALSE], or the palette sorted once and twice

fsVars   == <<cache, current, preview>>
runVars  == <<pc, inv, hist>>
keyVars  == <<cfgA, cfgB, nameA, nameB, keyA, keyB>>
mixVars  == <<mixA, mixB, mixP, mixOut>>
synVars  == <<synPal, synCfg, synOut>>
beVars   == <<beKind, beColors, beOut, quantLib>>
stVars   == <<stFile, stFlags, stConfig, stPixels, stPc, stKept, stPrepared, stResult>>
sortVars == <<sortIn, sortOut>>
vars     == <<fsVars, runVars, keyVars, mixVars, synVars, beVars, stVars, sortVars>>

(***************************************************************************)
(* Small helpers                                                           *)
(***************************************************************************)
Min(a, b) == IF a <= b THEN a ELSE b
Max(a, b) == IF a >= b THEN a ELSE b
Range(s) == {s[i] : i \in 1..Len(s)}

WHITE == <<255, 255, 255>>
BLACK == <<0, 0, 0>>

(***************************************************************************)
(* Stringification, as Rust's Display does it                              *)
(***************************************************************************)
DecDigits == <<"0", "1", "2", "3", "4", "5", "6", "7", "8", "9">>
HexDigits == <<"0", "1", "2", "3", "4", "5", "6", "7", "8", "9",
               "a", "b", "c", "d", "e", "f">>

\* Display of an unsigned integer: decimal, no leading zeros.
RECURSIVE fmt_uint(_)
fmt_uint(n) ==
    IF n < 10 THEN DecDigits[n + 1]
    ELSE fmt_uint(n \div 10) \o DecDigits[(n % 10) + 1]

\* Display of a bool.
fmt_bool(b) == IF b THEN "true" ELSE "false"

\* Display of the f32 nearest to h/100, 0 <= h <= 100: the shortest decimal
\* that reads back as the same f32 ("0", "1", "0.4", "0.41").
fmt_f32(h) ==
    IF h = 0 THEN "0"
    ELSE IF h = 100 THEN "1"
    ELSE IF h % 10 = 0 THEN "0." \o DecDigits[(h \div 10) + 1]
    ELSE "0." \o DecDigits[(h \div 10) + 1] \o DecDigits[(h % 10) + 1]

\* format!("{:02x}", byte)
fmt_02x(n) == HexDigits[(n \div 16) + 1] \o HexDigits[(n % 16) + 1]

\* config.rs rgb_to_hex: "#{:02x}{:02x}{:02x}"
rgb_to_hex(rgb) == "#" \o fmt_02x(rgb[1]) \o fmt_02x(rgb[2]) \o fmt_02x(rgb[3])

\* Backend::to_string
backend_to_string(b) == IF b = "Colorthief" THEN "colorthief" ELSE "colorz"

(***************************************************************************)
(* Config                                                                  *)
(***************************************************************************)
\* impl Default for Config
DefaultConfig ==
    [ backend |-> "ColorZ", thumb_w |-> 100, thumb_h |-> 100,
      bg_color |-> BLACK, bg_idx |-> 0, bg_strength |-> 10,
      fg_color |-> WHITE, fg_idx |-> 0, fg_strength |-> 10,
      light |-> FALSE,
      clamp_saturation |-> TRUE, clamp_value |-> TRUE,
      skip_saturation |-> TRUE, skip_value |-> FALSE,
      clamp_value_min |-> 40, clamp_value_max |-> 50,
      clamp_saturation_min |-> 40, clamp_saturation_max |-> 41,
      skip_value_min |-> 10, skip_value_max |-> 90,
      skip_saturation_min |-> 30, skip_saturation_max |-> 70 ]

\* A cache_string that leaves thumb_w out (a dropped format argument).
cache_string_no_thumb_w(c) ==
    backend_to_string(c.backend)
    \o fmt_uint(c.thumb_h)
    \o rgb_to_hex(c.bg_color) \o fmt_uint(c.bg_idx) \o fmt_uint(c.bg_strength)
    \o rgb_to_hex(c.fg_color) \o fmt_uint(c.fg_idx) \o fmt_uint(c.fg_strength)
    \o fmt_bool(c.light)
    \o fmt_bool(c.clamp_saturation) \o fmt_bool(c.clamp_value)
    \o fmt_bool(c.skip_saturation) \o fmt_bool(c.skip_value)
    \o fmt_f32(c.clamp_value_min) \o fmt_f32(c.clamp_value_max)
    \o fmt_f32(c.clamp_saturation_min) \o fmt_f32(c.clamp_saturation_max)
    \o fmt_f32(c.skip_value_min) \o fmt_f32(c.skip_value_max)
    \o fmt_f32(c.skip_saturation_min) \o fmt_f32(c.skip_saturation_max)

\* Config::cache_string: the 22 fields, each by Display, with nothing between them.
cache_string(c) ==
    backend_to_string(c.backend)
    \o fmt_uint(c.thumb_w) \o fmt_uint(c.thumb_h)
    \o rgb_to_hex(c.bg_color) \o fmt_uint(c.bg_idx) \o fmt_uint(c.bg_strength)
    \o rgb_to_hex(c.fg_color) \o fmt_uint(c.fg_idx) \o fmt_uint(c.fg_strength)
    \o fmt_bool(c.light)
    \o fmt_bool(c.clamp_saturation) \o fmt_bool(c.clamp_value)
    \o fmt_bool(c.skip_saturation) \o fmt_bool(c.skip_value)
    \o fmt_f32(c.clamp_value_min) \o fmt_f32(c.clamp_value_max)
    \o fmt_f32(c.clamp_saturation_min) \o fmt_f32(c.clamp_saturation_max)
    \o fmt_f32(c.skip_value_min) \o fmt_f32(c.skip_value_max)
    \o fmt_f32(c.skip_saturation_min) \o fmt_f32(c.skip_saturation_max)

\* main.rs: format!("{}{}", config.cache_string(), name)
cache_name(c, name) == cache_string(c) \o name

(***************************************************************************)
(* rwal.rs: mix_colors                                                     *)
(***************************************************************************)
U8  == 256      \* values of a u8
U16 == 65536    \* values of a u16

\* The closure `interpolate` with rounding to nearest instead of truncation.
interpolate_rounding(a, b, pos) ==
    ((((a * (100 - pos) + b * pos) + 50) % U16) \div 100) % U8

\* The closure `interpolate`: u16 arithmetic (wrapping at 2^16), then `as u8`.
interpolate(a, b, pos) ==
    (((a * (100 - pos) + b * pos) % U16) \div 100) % U8

\* mix_colors(f, s, pos): pos.clamp(0, 100), then interpolate per channel.
mix_colors(f, s, pos) ==
    LET p == Min(Max(pos, 0), 100)
    IN  << interpolate(f[1], s[1], p),
           interpolate(f[2], s[2], p),
           interpolate(f[3], s[3], p) >>

(***************************************************************************)
(* rwal.rs: the Colorscheme built at the end of generate_colorscheme       *)
(***************************************************************************)
\* palette[i] of the code (0-based); the model's sequences are 1-based.
At(palette, i) == palette[i + 1]

\* The synthesis with every light companion lifted by 30 (t8 and t15 too).
synthesize_all_30(rwal, palette) ==
    LET bg == mix_colors(rwal.bg_color, At(palette, rwal.bg_idx), rwal.bg_strength)
        fg == mix_colors(rwal.fg_color, At(palette, rwal.fg_idx), rwal.fg_strength)
    IN  [ t0 |-> bg, t1 |-> At(palette, 1), t2 |-> At(palette, 2),
          t3 |-> At(palette, 3), t4 |-> At(palette, 4), t5 |-> At(palette, 5),
          t6 |-> At(palette, 6), t7 |-> fg,
          t8  |-> mix_colors(bg, WHITE, 30),
          t9  |-> mix_colors(At(palette, 1), WHITE, 30),
          t10 |-> mix_colors(At(palette, 2), WHITE, 30),
          t11 |-> mix_colors(At(palette, 3), WHITE, 30),
          t12 |-> mix_colors(At(palette, 4), WHITE, 30),
          t13 |-> mix_colors(At(palette, 5), WHITE, 30),
          t14 |-> mix_colors(At(palette, 6), WHITE, 30),
          t15 |-> mix_colors(fg, WHITE, 30) ]

\* generate_colorscheme, lines 112-132: requires bg_idx, fg_idx < palette.len()
\* and palette.len() >= 7 (the caller has checked >= 8).
synthesize(rwal, palette) ==
    LET bg == mix_colors(rwal.bg_color, At(palette, rwal.bg_idx), rwal.bg_strength)
        fg == mix_colors(rwal.fg_color, At(palette, rwal.fg_idx), rwal.fg_strength)
    IN  [ t0 |-> bg, t1 |-> At(palette, 1), t2 |-> At(palette, 2),
          t3 |-> At(palette, 3), t4 |-> At(palette, 4), t5 |-> At(palette, 5),
          t6 |-> At(palette, 6), t7 |-> fg,
          t8  |-> mix_colors(bg, WHITE, 10),
          t9  |-> mix_colors(At(palette, 1), WHITE, 30),
          t10 |-> mix_colors(At(palette, 2), WHITE, 30),
          t11 |-> mix_colors(At(palette, 3), WHITE, 30),
          t12 |-> mix_colors(At(palette, 4), WHITE, 30),
          t13 |-> mix_colors(At(palette, 5), WHITE, 30),
          t14 |-> mix_colors(At(palette, 6), WHITE, 30),
          t15 |-> mix_colors(fg, WHITE, 10) ]

\* Colorscheme::into_array: the slots in the order t0..t15.
into_array(cs) ==
    << cs.t0, cs.t1, cs.t2, cs.t3, cs.t4, cs.t5, cs.t6, cs.t7,
       cs.t8, cs.t9, cs.t10, cs.t11, cs.t12, cs.t13, cs.t14, cs.t15 >>

\* Vec<String>::join("\n")
RECURSIVE join_newline(_)
join_newline(strs) ==
    IF Len(strs) = 0 THEN ""
    ELSE IF Len(strs) = 1 THEN strs[1]
    ELSE strs[1] \o "\n" \o join_newline(Tail(strs))

\* main.rs: colorscheme.into_array().into_iter().map(rgb_to_hex).collect().join("\n")
colorscheme_file(cs) ==
    join_newline([i \in 1..16 |-> rgb_to_hex(into_array(cs)[i])])

(***************************************************************************)
(* HSV, as the palette crate computes it from an 8-bit sRGB colour.        *)
(* The model keeps the exact rationals the f32 values approximate:         *)
(*   hue / 60 = hn / hd,  saturation = sn / sd,  value = vn / vd.          *)
(***************************************************************************)
Max3(c) == Max(c[1], Max(c[2], c[3]))
Min3(c) == Min(c[1], Min(c[2], c[3]))

\* rwal.rs 49-52, 213-215: Srgb<u8> -> Srgb<f32> -> Hsv::from_color
rgb_to_hsv(c) ==
    LET mx == Max3(c)
        mn == Min3(c)
        d  == mx - mn
    IN  IF d = 0
        THEN [hn |-> 0, hd |-> 1, sn |-> 0, sd |-> 1, vn |-> mx, vd |-> 255]
        ELSE [ hn |-> IF c[3] > Max(c[1], c[2]) THEN (c[1] - c[2]) + 4 * d
                      ELSE IF c[1] > c[2] THEN c[2] - c[3]
                      ELSE (c[3] - c[1]) + 2 * d,
               hd |-> d, sn |-> d, sd |-> mx, vn |-> mx, vd |-> 255 ]

RECURSIVE gcd(_, _)
gcd(a, b) == IF b = 0 THEN a ELSE gcd(b, a % b)

\* The rational num / den >= 0 rounded to the nearest integer, at most 255;
\* `into_format::<u8>` of a channel in [0, 1] scaled by 255.
round_u8(num, den) == Min(255, (2 * num + den) \div (2 * den))

\* rwal.rs 78-85, 228-230: Srgb::from_color(hsv), then into_format::<u8>
hsv_to_rgb(hsv) ==
    LET hpn == hsv.hn % (6 * hsv.hd)            \* hue / 60 in [0, 6), over hd
        sector == hpn \div hsv.hd
        m2 == hpn % (2 * hsv.hd)
        wn == hsv.hd - (IF m2 >= hsv.hd THEN m2 - hsv.hd ELSE hsv.hd - m2)
        \* 255 * value = an / ad, in lowest terms
        g  == gcd(255 * hsv.vn, hsv.vd)
        an == (255 * hsv.vn) \div g
        ad == hsv.vd \div g
        \* a channel is value * (1 - saturation + saturation * t), t = tn / hd
        chan(tn) == round_u8(an * (hsv.sd * hsv.hd - hsv.sn * hsv.hd + hsv.sn * tn),
                             ad * hsv.sd * hsv.hd)
        c == chan(hsv.hd)
        x == chan(wn)
        z == chan(0)
    IN  CASE sector = 0 -> <<c, x, z>>
          [] sector = 1 -> <<x, c, z>>
          [] sector = 2 -> <<z, c, x>>
          [] sector = 3 -> <<z, x, c>>
          [] sector = 4 -> <<x, z, c>>
          [] OTHER      -> <<c, z, x>>

(***************************************************************************)
(* rwal.rs: sort_by_hue                                                    *)
(***************************************************************************)
\* `f.hue.into()`: the hue as an f32 of degrees, which the palette crate gives
\* in (-180, 180]; the key is hue / 60 as the rational kn / hd.
hue_key(hsv) == IF hsv.hn > 3 * hsv.hd THEN hsv.hn - 6 * hsv.hd ELSE hsv.hn

\* f_hue.partial_cmp(&s_hue) = Less
hue_less(f, s) == hue_key(f) * s.hd < hue_key(s) * f.hd

\* Inserts x after every element that is not greater: a stable sort, as sort_by is.
RECURSIVE insert_by_hue(_, _)
insert_by_hue(sorted, x) ==
    IF Len(sorted) = 0 THEN <<x>>
    ELSE IF hue_less(x, sorted[Len(sorted)])
         THEN Append(insert_by_hue(SubSeq(sorted, 1, Len(sorted) - 1), x),
                     sorted[Len(sorted)])
         ELSE Append(sorted, x)

RECURSIVE sort_hsv(_)
sort_hsv(seq) ==
    IF Len(seq) = 0 THEN <<>>
    ELSE insert_by_hue(sort_hsv(SubSeq(seq, 1, Len(seq) - 1)), seq[Len(seq)])

\* sort_by_hue: to HSV, stable sort on the hue, back to 8-bit sRGB.
sort_by_hue(palette) ==
    LET hsv_palette == [i \in 1..Len(palette) |-> rgb_to_hsv(palette[i])]
        sorted == sort_hsv(hsv_palette)
    IN  [i \in 1..Len(sorted) |-> hsv_to_rgb(sorted[i])]

(***************************************************************************)
(* rwal.rs: Rwal and Rwal::prepare_colors                                  *)
(***************************************************************************)
\* main.rs 168-170: if config.light, swap bg_color and fg_color.
light_swap(config) ==
    IF config.light
    THEN [config EXCEPT !.bg_color = config.fg_color, !.fg_color = config.bg_color]
    ELSE config

\* main.rs 206-229: the Rwal built from the Config.
rwal_of(config) ==
    [ backend |-> config.backend,
      image_resize |-> <<config.thumb_w, config.thumb_h>>,
      bg_idx |-> config.bg_idx,
      bg_color |-> config.bg_color,
      bg_strength |-> config.bg_strength,
      fg_idx |-> config.fg_idx,
      fg_color |-> config.fg_color,
      fg_strength |-> config.fg_strength,
      clamp_saturation |-> config.clamp_saturation,
      saturation_clamp |-> <<config.clamp_saturation_min, config.clamp_saturation_max>>,
      skip_saturation |-> config.skip_saturation,
      saturation_skip |-> <<config.skip_saturation_min, config.skip_saturation_max>>,
      clamp_value |-> config.clamp_value,
      value_clamp |-> <<config.clamp_value_min, config.clamp_value_max>>,
      skip_value |-> config.skip_value,
      value_skip |-> <<config.skip_value_min, config.skip_value_max>> ]

\* Filters that let a sample on a bound through.
passes_skip_inclusive(rwal, c) ==
    /\ \/ ~rwal.skip_saturation
       \/ /\ c.sn * 100 >= rwal.saturation_skip[1] * c.sd
          /\ c.sn * 100 <= rwal.saturation_skip[2] * c.sd
    /\ \/ ~rwal.skip_value
       \/ /\ c.vn * 100 >= rwal.value_skip[1] * c.vd
          /\ c.vn * 100 <= rwal.value_skip[2] * c.vd

\* rwal.rs 54-67: the two filters, on the sample's own saturation and value.
passes_skip(rwal, c) ==
    /\ \/ ~rwal.skip_saturation
       \/ /\ c.sn * 100 > rwal.saturation_skip[1] * c.sd
          /\ c.sn * 100 < rwal.saturation_skip[2] * c.sd
    /\ \/ ~rwal.skip_value
       \/ /\ c.vn * 100 > rwal.value_skip[1] * c.vd
          /\ c.vn * 100 < rwal.value_skip[2] * c.vd

\* rwal.rs 68-76: the two clamps, bounds in hundredths.
clamp_hsv(rwal, c) ==
    LET s == IF ~rwal.clamp_saturation THEN <<c.sn, c.sd>>
             ELSE IF c.sn * 100 < rwal.saturation_clamp[1] * c.sd
                  THEN <<rwal.saturation_clamp[1], 100>>
             ELSE IF c.sn * 100 > rwal.saturation_clamp[2] * c.sd
                  THEN <<rwal.saturation_clamp[2], 100>>
             ELSE <<c.sn, c.sd>>
        v == IF ~rwal.clamp_value THEN <<c.vn, c.vd>>
             ELSE IF c.vn * 100 < rwal.value_clamp[1] * c.vd
                  THEN <<rwal.value_clamp[1], 100>>
             ELSE IF c.vn * 100 > rwal.value_clamp[2] * c.vd
                  THEN <<rwal.value_clamp[2], 100>>
             ELSE <<c.vn, c.vd>>
    IN  [c EXCEPT !.sn = s[1], !.sd = s[2], !.vn = v[1], !.vd = v[2]]

RECURSIVE select_skip(_, _)
select_skip(rwal, hsvs) ==
    IF Len(hsvs) = 0 THEN <<>>
    ELSE IF passes_skip(rwal, Head(hsvs))
         THEN <<Head(hsvs)>> \o select_skip(rwal, Tail(hsvs))
         ELSE select_skip(rwal, Tail(hsvs))

\* f32::clamp(min, max) asserts min <= max; it runs once per surviving sample.
clamp_panics(rwal) ==
    \/ rwal.clamp_saturation /\ rwal.saturation_clamp[1] > rwal.saturation_clamp[2]
    \/ rwal.clamp_value /\ rwal.value_clamp[1] > rwal.value_clamp[2]

\* rwal.rs 46-53: every pixel as Hsv.
to_hsv(pixels) == [i \in 1..Len(pixels) |-> rgb_to_hsv(pixels[i])]

\* rwal.rs 68-76: the map over the samples the filters let through.
clamped_samples(rwal, kept) == [i \in 1..Len(kept) |-> clamp_hsv(rwal, kept[i])]

\* Rwal::prepare_colors: [kind |-> "Ok", colors] or [kind |-> "Panic"].
prepare_colors(rwal, pixels) ==
    LET kept == select_skip(rwal, to_hsv(pixels))
        clamped == clamped_samples(rwal, kept)
    IN  IF Len(kept) > 0 /\ clamp_panics(rwal)
        THEN [kind |-> "Panic"]
        ELSE [kind |-> "Ok",
              colors |-> [i \in 1..Len(clamped) |-> hsv_to_rgb(clamped[i])]]

(***************************************************************************)
(* backends: the two quantizers.  The crates kmeans_colors and color_thief *)
(* are outside the repository; `lib` is the behaviour the library shows:   *)
(*   lib.thief_err  color_thief::get_palette fails on every input          *)
(*   lib.merge      how many of the distinct input colours the library     *)
(*                  merges into others                                     *)
(* A library returns at most as many colours as it is asked for.           *)
(***************************************************************************)
PaletteCount   == 8      \* rwal.rs 100: generate_palette(&colors, 8)
ThiefMaxColors == 255    \* colorthief.rs 14: get_palette(.., 5, 255)
MaxMerge       == 1      \* lib.merge is at most this

LibBehaviours == [thief_err : BOOLEAN, merge : 0..MaxMerge]

RECURSIVE distinct(_)
distinct(colors) ==
    IF Len(colors) = 0 THEN <<>>
    ELSE LET front == distinct(SubSeq(colors, 1, Len(colors) - 1))
             c == colors[Len(colors)]
         IN  IF c \in Range(front) THEN front ELSE Append(front, c)

\* The colours a library reduces `colors` to when asked for `max_colors`.
reduce_colors(colors, max_colors, lib) ==
    LET d == distinct(colors)
        n == Min(max_colors, Max(Len(d) - lib.merge, IF Len(d) > 0 THEN 1 ELSE 0))
    IN  SubSeq(d, 1, n)

\* kmeans_colors::get_kmeans(k, ..).centroids, best of the three seeds
get_kmeans(k, colors, lib) == reduce_colors(colors, k, lib)

\* color_thief::get_palette(pixels, Rgb, quality, max_colors); an empty buffer
\* is taken to fail.
get_palette(pixels, max_colors, lib) ==
    IF lib.thief_err \/ Len(pixels) = 0
    THEN [kind |-> "Err"]
    ELSE [kind |-> "Ok", colors |-> reduce_colors(pixels, max_colors, lib)]

\* Vec::push((0, 0, 0)) while len < count
pad_black(palette, count) ==
    [i \in 1..Max(count, Len(palette)) |->
        IF i <= Len(palette) THEN palette[i] ELSE BLACK]

\* ColorZ::generate_palette
colorz_generate_palette(colors, count, lib) ==
    IF Len(colors) = 0 THEN [kind |-> "None"]
    ELSE [kind |-> "Some", palette |-> pad_black(get_kmeans(count, colors, lib), count)]

\* ColorThief::generate_palette: the count parameter is `_`
colorthief_generate_palette(colors, count, lib) ==
    LET r == get_palette(colors, ThiefMaxColors, lib)
    IN  IF r.kind = "Err" THEN [kind |-> "None"]
        ELSE [kind |-> "Some", palette |-> r.colors]

\* How many colours the variant asks its library for.
requested_colors(backend, count) ==
    IF backend = "Colorthief" THEN ThiefMaxColors ELSE count

\* impl RwalBackend for Backend
generate_palette(backend, colors, count, lib) ==
    IF backend = "Colorthief"
    THEN colorthief_generate_palette(colors, count, lib)
    ELSE colorz_generate_palette(colors, count, lib)

(***************************************************************************)
(* rwal.rs: Rwal::generate_colorscheme                                     *)
(***************************************************************************)
\* image::open(path): file is [decodable, pixels]; resize_exact(w, h, Nearest)
\* keeps w * h samples.  The copies that enlarging would add are left out:
\* the filters and clamps act per sample and the libraries on distinct colours.
resize_exact(pixels, w, h) == SubSeq(pixels, 1, Min(Len(pixels), w * h))

\* [kind |-> "Ok", cs], [kind |-> "Err", err] or [kind |-> "Panic"]
generate_colorscheme(rwal, file, lib) ==
    IF ~file.decodable THEN [kind |-> "Err", err |-> "Failed to open image"]
    ELSE
    LET img == resize_exact(file.pixels, rwal.image_resize[1], rwal.image_resize[2])
        prepared == prepare_colors(rwal, img)
    IN  IF prepared.kind = "Panic" THEN [kind |-> "Panic"]
        ELSE
        LET generated == generate_palette(rwal.backend, prepared.colors, PaletteCount, lib)
        IN  IF generated.kind = "None"
            THEN [kind |-> "Err", err |-> "Failed to generate palette"]
            ELSE
            LET palette1 == sort_by_hue(generated.palette)
            IN  IF Len(palette1) < 8
                THEN [kind |-> "Err", err |-> "Not enough colors generated"]
                ELSE
                LET palette == sort_by_hue(palette1)
                IN  IF rwal.bg_idx >= Len(palette) \/ rwal.fg_idx >= Len(palette)
                    THEN [kind |-> "Panic"]
                    ELSE [kind |-> "Ok", cs |-> synthesize(rwal, palette)]

(***************************************************************************)
(* Values the specifications leave untouched                               *)
(***************************************************************************)
None == [none |-> TRUE]          \* Option::None, and "not computed yet"
NoFile == [exists |-> FALSE, data |-> ""]

IdleFs  == cache = <<>> /\ current = NoFile /\ preview = NoFile
IdleRun == pc = <<>> /\ inv = <<>> /\ hist = <<>>
IdleKey == /\ cfgA = DefaultConfig /\ cfgB = DefaultConfig
           /\ nameA = "" /\ nameB = "" /\ keyA = "" /\ keyB = ""
IdleMix == mixA = BLACK /\ mixB = BLACK /\ mixP = 0 /\ mixOut = <<>>
IdleSyn == synPal = <<>> /\ synCfg = None /\ synOut = None
IdleBe  == beKind = "" /\ beColors = <<>> /\ beOut = None /\ quantLib = None
IdleSt  == /\ stFile = None /\ stFlags = <<>> /\ stConfig = DefaultConfig
           /\ stPixels = <<>> /\ stPc = "" /\ stKept = <<>>
           /\ stPrepared = None /\ stResult = None
IdleSort == sortIn = <<>> /\ sortOut = None

(***************************************************************************)
(* SpecKey: the cache file name of two (Config, image name) pairs          *)
(***************************************************************************)
MaxDiff == 2    \* the second pair differs from the first in at most this many places

\* The values each Config field is drawn from.
FieldValues ==
    [ backend |-> {"ColorZ", "Colorthief"},
      thumb_w |-> {1, 11, 100, 101}, thumb_h |-> {1, 11, 100},
      bg_color |-> {BLACK, <<18, 52, 86>>}, bg_idx |-> {0, 7},
      bg_strength |-> {0, 10, 100},
      fg_color |-> {WHITE, <<18, 52, 86>>}, fg_idx |-> {0, 7},
      fg_strength |-> {0, 10, 100},
      light |-> BOOLEAN,
      clamp_saturation |-> BOOLEAN, clamp_value |-> BOOLEAN,
      skip_saturation |-> BOOLEAN, skip_value |-> BOOLEAN,
      clamp_value_min |-> {0, 40}, clamp_value_max |-> {50, 100},
      clamp_saturation_min |-> {4, 40}, clamp_saturation_max |-> {41, 100},
      skip_value_min |-> {0, 10}, skip_value_max |-> {9, 90},
      skip_saturation_min |-> {30, 3}, skip_saturation_max |-> {70, 7} ]

Fields == DOMAIN FieldValues
KeyNames == {"x.png", "0x.png", "y.png"}
KeyBaseConfigs ==
    { DefaultConfig,
      [DefaultConfig EXCEPT !.thumb_w = 1, !.thumb_h = 11],
      [DefaultConfig EXCEPT !.backend = "Colorthief", !.light = TRUE,
                            !.skip_saturation_max = 7] }

DiffFields(a, b) == {f \in Fields : a[f] # b[f]}
DiffCount(a, na, b, nb) ==
    Cardinality(DiffFields(a, b)) + (IF na = nb THEN 0 ELSE 1)

KeyInit ==
    /\ cfgA \in KeyBaseConfigs /\ cfgB = cfgA
    /\ nameA \in KeyNames /\ nameB = nameA
    /\ keyA = "" /\ keyB = ""
    /\ IdleFs /\ IdleRun /\ IdleMix /\ IdleSyn /\ IdleBe /\ IdleSt /\ IdleSort

\* Another value for one field of the second Config.
ChangeField ==
    /\ keyA = ""
    /\ \E f \in Fields : \E v \in FieldValues[f] :
          /\ v # cfgB[f]
          /\ DiffCount(cfgA, nameA, [cfgB EXCEPT ![f] = v], nameB) <= MaxDiff
          /\ cfgB' = [cfgB EXCEPT ![f] = v]
    /\ UNCHANGED <<cfgA, nameA, nameB, keyA, keyB>>
    /\ UNCHANGED <<fsVars, runVars, mixVars, synVars, beVars, stVars, sortVars>>

\* Another image file name for the second pair.
ChangeName ==
    /\ keyA = ""
    /\ \E n \in KeyNames :
          /\ n # nameB
          /\ DiffCount(cfgA, nameA, cfgB, n) <= MaxDiff
          /\ nameB' = n
    /\ UNCHANGED <<cfgA, cfgB, nameA, keyA, keyB>>
    /\ UNCHANGED <<fsVars, runVars, mixVars, synVars, beVars, stVars, sortVars>>

\* main.rs 168-170, 273: the light swap, then
\* cache_name = format!("{}{}", config.cache_string(), name), for both pairs.
ComputeKeys ==
    /\ keyA = ""
    /\ keyA' = cache_name(light_swap(cfgA), nameA)
    /\ keyB' = cache_name(light_swap(cfgB), nameB)
    /\ UNCHANGED <<cfgA, cfgB, nameA, nameB>>
    /\ UNCHANGED <<fsVars, runVars, mixVars, synVars, beVars, stVars, sortVars>>

KeyNext == ChangeField \/ ChangeName \/ ComputeKeys
SpecKey == KeyInit /\ [][KeyNext]_vars

\* C5: the cache key is injective: two (Settings, image file name) pairs that
\* differ in at least one field, or in the file name, have different keys.
C5_KeyInjective ==
    (keyA # "" /\ (cfgA # cfgB \/ nameA # nameB)) => keyA # keyB

\* C6: two Settings equal in every field but thumb_w (same image file name) have
\* different fingerprints, and two Settings equal in every field have the same.
C6_ThumbWSensitive ==
    (keyA # "" /\ nameA = nameB) =>
        /\ (DiffFields(cfgA, cfgB) = {"thumb_w"} => keyA # keyB)
        /\ (DiffFields(cfgA, cfgB) = {} => keyA = keyB)

C6_Witness ==
    /\ keyA # "" /\ nameA = nameB
    /\ DiffFields(cfgA, cfgB) = {"thumb_w"}
    /\ cfgA.thumb_w = 1 /\ cfgB.thumb_w = 11 /\ cfgA.thumb_h = 11

(***************************************************************************)
(* SpecMix: mix_colors on two colours and a strength                       *)
(***************************************************************************)
Byte == 0..255
MixColors == {BLACK, WHITE, <<1, 128, 254>>, <<255, 0, 127>>}

MixInit ==
    /\ mixA \in MixColors /\ mixB \in MixColors
    /\ mixP \in Byte            \* pos: u8
    /\ mixOut = <<>>
    /\ IdleFs /\ IdleRun /\ IdleKey /\ IdleSyn /\ IdleBe /\ IdleSt /\ IdleSort

\* The call mix_colors(f, s, pos).
Mix ==
    /\ mixOut = <<>>
    /\ mixOut' = mix_colors(mixA, mixB, mixP)
    /\ UNCHANGED <<mixA, mixB, mixP>>
    /\ UNCHANGED <<fsVars, runVars, keyVars, synVars, beVars, stVars, sortVars>>

MixNext == Mix
SpecMix == MixInit /\ [][MixNext]_vars

\* The blend the specification gives, on unbounded integers.
LinearBlend(a, b, p) == (a * (100 - p) + b * p) \div 100

\* C7: for strength p in 0..100 each channel of mix_colors is exactly
\* (a*(100-p) + b*p) / 100 truncated, the 16-bit sum a*(100-p) + b*p does not
\* overflow, and the result lies between a and b; black and white at 50 blend
\* to (127,127,127).  The call's own channels are checked in every state, and
\* all 256 x 256 channel pairs at the state's strength in the states of the
\* black/white pair.
C7_MixExact ==
    (mixOut # <<>> /\ mixP <= 100) =>
        /\ \A i \in 1..3 :
              /\ mixOut[i] = LinearBlend(mixA[i], mixB[i], mixP)
              /\ mixOut[i] >= Min(mixA[i], mixB[i])
              /\ mixOut[i] <= Max(mixA[i], mixB[i])
        /\ (mixA = BLACK /\ mixB = WHITE) =>
              \A a \in Byte : \A b \in Byte :
                  /\ a * (100 - mixP) + b * mixP < U16
                  /\ interpolate(a, b, mixP) = LinearBlend(a, b, mixP)
                  /\ interpolate(a, b, mixP) >= Min(a, b)
                  /\ interpolate(a, b, mixP) <= Max(a, b)
        /\ (mixA = BLACK /\ mixB = WHITE /\ mixP = 50) => mixOut = <<127, 127, 127>>

C7_Witness ==
    mixA = BLACK /\ mixB = WHITE /\ mixP = 50 /\ mixOut = <<127, 127, 127>>

(***************************************************************************)
(* SpecSynth: the Colorscheme built from a hue-ordered palette             *)
(***************************************************************************)
MaxSynLen == 9     \* the palettes have 8..MaxSynLen colours

SynColors ==
    << <<200, 100, 100>>, <<200, 150, 100>>, <<200, 200, 100>>, <<100, 200, 100>>,
       <<100, 200, 200>>, <<100, 100, 200>>, <<200, 100, 200>>, <<150, 100, 200>>,
       <<100, 150, 200>>, <<10, 250, 130>>, <<0, 0, 0>> >>

rotate(seq, r) == [i \in 1..Len(seq) |-> seq[((i - 1 + r) % Len(seq)) + 1]]

\* What a backend may hand over: any rotation of the colours, cut to 8.. colours.
SynRawPalettes ==
    { SubSeq(rotate(SynColors, r), 1, n) :
        r \in 0..(Len(SynColors) - 1), n \in 8..Min(MaxSynLen, Len(SynColors)) }

SynConfigs ==
    { [DefaultConfig EXCEPT !.bg_idx = bi, !.fg_idx = fi, !.bg_strength = bs,
                            !.fg_strength = fs, !.light = l] :
        bi \in 0..7, fi \in {0, 1, 6, 7}, bs \in {0, 10, 100}, fs \in {10, 37},
        l \in BOOLEAN }

SynInit ==
    /\ synPal \in {sort_by_hue(sort_by_hue(raw)) : raw \in SynRawPalettes}
    /\ synCfg \in {rwal_of(light_swap(c)) : c \in SynConfigs}
    /\ synOut = None
    /\ IdleFs /\ IdleRun /\ IdleKey /\ IdleMix /\ IdleBe /\ IdleSt /\ IdleSort

\* rwal.rs 112-132 on the palette of line 110.
Synthesize ==
    /\ synOut = None
    /\ synOut' = synthesize(synCfg, synPal)
    /\ UNCHANGED <<synPal, synCfg>>
    /\ UNCHANGED <<fsVars, runVars, keyVars, mixVars, beVars, stVars, sortVars>>

SynNext == Synthesize
SpecSynth == SynInit /\ [][SynNext]_vars

\* The blend of two colours the specification gives.
Blend(f, s, p) == [i \in 1..3 |-> LinearBlend(f[i], s[i], p)]

\* C8: t0 and t7 are the bg/fg colours blended with palette[bg_idx] /
\* palette[fg_idx] at bg_strength / fg_strength, t1..t6 are palette[1..6],
\* t8 and t15 are t0 and t7 blended 10% toward white, t9..t14 are t1..t6 blended
\* 30% toward white; palette[0] and palette[7] (and any entry past them) count
\* only where bg_idx or fg_idx selects them.
C8_Synthesis ==
    synOut # None =>
        LET a == into_array(synOut)
        IN  /\ synOut.t0 = Blend(synCfg.bg_color, synPal[synCfg.bg_idx + 1],
                                 synCfg.bg_strength)
            /\ synOut.t7 = Blend(synCfg.fg_color, synPal[synCfg.fg_idx + 1],
                                 synCfg.fg_strength)
            /\ \A i \in 1..6 : a[i + 1] = synPal[i + 1]
            /\ synOut.t8 = Blend(synOut.t0, WHITE, 10)
            /\ \A i \in 1..6 : a[i + 9] = Blend(a[i + 1], WHITE, 30)
            /\ synOut.t15 = Blend(synOut.t7, WHITE, 10)
            /\ \A k \in ({1} \cup 8..Len(synPal)) \ {synCfg.bg_idx + 1, synCfg.fg_idx + 1} :
                   \A c \in {BLACK, WHITE, <<1, 2, 3>>} :
                       synthesize(synCfg, [synPal EXCEPT ![k] = c]) = synOut

C8_Witness ==
    /\ synOut # None
    /\ Len(synPal) = 9
    /\ synCfg.bg_idx = 2 /\ synCfg.fg_idx = 7
    /\ synCfg.bg_strength = 10 /\ synCfg.fg_strength = 37
    /\ synOut.t0 # synCfg.bg_color /\ synOut.t8 # synOut.t0
    /\ synOut.t9 # synOut.t1 /\ synOut.t15 # synOut.t7

(***************************************************************************)
(* SpecBackend: one call of generate_palette(colors, 8)                    *)
(***************************************************************************)
MaxBeColors == 10    \* the calls pass 0..MaxBeColors colours

BeColorLists ==
    { SubSeq(rotate(SynColors, r), 1, n) :
        r \in 0..(Len(SynColors) - 1), n \in 0..Min(MaxBeColors, Len(SynColors)) }

BeInit ==
    /\ beKind \in {"ColorZ", "Colorthief"}
    /\ beColors \in BeColorLists
    /\ quantLib \in LibBehaviours
    /\ beOut = None
    /\ IdleFs /\ IdleRun /\ IdleKey /\ IdleMix /\ IdleSyn /\ IdleSt /\ IdleSort

\* rwal.rs 100: self.backend.generate_palette(&colors, 8)
CallBackend ==
    /\ beOut = None
    /\ beOut' = [ requested |-> requested_colors(beKind, PaletteCount),
                  result |-> generate_palette(beKind, beColors, PaletteCount, quantLib) ]
    /\ UNCHANGED <<beKind, beColors, quantLib>>
    /\ UNCHANGED <<fsVars, runVars, keyVars, mixVars, synVars, stVars, sortVars>>

BeNext == CallBackend
SpecBackend == BeInit /\ [][BeNext]_vars

\* C9: either variant asks its library for exactly `count` colours, and a
\* Some(list) it returns has at most `count` entries.
C9_BackendCount ==
    beOut # None =>
        /\ beOut.requested = PaletteCount
        /\ beOut.result.kind = "Some" => Len(beOut.result.palette) <= PaletteCount

(***************************************************************************)
(* main.rs: one invocation of the program, step by step.                   *)
(*                                                                         *)
(* A path is the sequence of its components ("/a/x.png" is                 *)
(* <<"", "a", "x.png">>); the -i argument is <<>> (absent) or <<path>>.    *)
(* std::fs::write(p, data) is File::create(p) (create or truncate), then   *)
(* one write of data; std::fs::copy(from, to) opens `from`, creates or     *)
(* truncates `to`, then reads and writes until a read returns nothing.     *)
(* Every file operation succeeds (the code ignores their errors).          *)
(***************************************************************************)
Procs == {1, 2}

ImgA == << <<200, 100, 100>>, <<200, 150, 100>>, <<200, 200, 100>>, <<100, 200, 100>>,
           <<100, 200, 200>>, <<100, 100, 200>>, <<200, 100, 200>>, <<150, 100, 200>>,
           <<100, 150, 200>> >>
ImgB == << <<240, 120, 120>>, <<100, 150, 200>>, <<240, 240, 120>>, <<120, 240, 120>>,
           <<120, 240, 240>>, <<120, 120, 240>>, <<240, 120, 240>>, <<180, 120, 240>>,
           <<240, 180, 120>> >>
ImgFew == << <<200, 100, 100>>, <<200, 200, 100>>, <<100, 200, 100>>,
             <<100, 100, 200>>, <<200, 100, 200>> >>

PathAX   == <<"", "a", "x.png">>
PathBX   == <<"", "b", "x.png">>
PathBad  == <<"", "a", "bad.png">>
PathFew  == <<"", "a", "few.png">>
PathA    == <<"", "a">>
PathEmpty == <<"", "empty">>
PathNope == <<"", "nope">>

\* The image files on disk: what image::open gives for each.
ImageFiles ==
    (PathAX :> [decodable |-> TRUE, pixels |-> ImgA])
    @@ (PathBX :> [decodable |-> TRUE, pixels |-> ImgB])
    @@ (PathFew :> [decodable |-> TRUE, pixels |-> ImgFew])
    @@ (PathBad :> [decodable |-> FALSE, pixels |-> <<>>])

\* The directories on disk.
Directories == {PathA, <<"", "b">>, PathEmpty}

\* main.rs 318-345 collect_images(path): the image files below a directory.
collect_images(dir) ==
    {f \in DOMAIN ImageFiles : Len(f) > Len(dir) /\ SubSeq(f, 1, Len(dir)) = dir}

path_exists(path) == path \in DOMAIN ImageFiles \/ path \in Directories

\* main.rs 172-202: the images the run may end up with; none: the run exits.
selected_images(arg) ==
    IF arg = <<>> THEN {}
    ELSE IF ~path_exists(arg[1]) THEN {}
    ELSE IF arg[1] \in Directories THEN collect_images(arg[1])
    ELSE {arg[1]}

\* main.rs 268-272: image.split("/").last()
base_name(path) == path[Len(path)]

\* Colorscheme::html_preview: the swatches of the 16 slots, as decimal r, g, b.
html_preview(cs) ==
    "<html>" \o join_newline([i \in 1..16 |->
        fmt_uint(into_array(cs)[i][1]) \o "," \o fmt_uint(into_array(cs)[i][2])
        \o "," \o fmt_uint(into_array(cs)[i][3])])

\* write(2) of `data` at offset 0 of a file holding `old`.  Every colorscheme
\* file has the same length, so the written bytes cover what was there;
\* writing nothing leaves the file as it is.
write_at_start(old, data) == IF data = "" THEN old ELSE data

\* A copy that writes whatever it read, even nothing, over the destination.
copy_data_replacing(old, buf) == buf

\* fs::copy's write of what it read: nothing is written for an empty read.
copy_data(old, buf) == write_at_start(old, buf)

\* A run that never finds a cache entry.
cache_hit_never(files, name) == FALSE

\* main.rs 277: cache_path.exists()
cache_hit(files, name) == name \in DOMAIN files

\* A run that writes the cache entry even with -c.
pc_after_preview_caching(skip_cache) == "create_cache"

\* A run that publishes right after the preview, without the cache write.
pc_after_preview_no_cache(skip_cache) == "create_current"

\* main.rs 250-255 (skip cache) / 292-297: what follows the preview write.
pc_after_preview(skip_cache) ==
    IF skip_cache THEN "create_current" ELSE "create_cache"

\* A run that creates the current-colorscheme file before it gives up.
pc_after_error_touching == "create_current"

\* main.rs 244-247, 286-289: log the error and return.
pc_after_error == "exit"

\* A run that ends after the cache write, without publishing.
pc_after_cache_write_exit == "exit"

\* main.rs 297-307: after the cache entry, the current-colorscheme file.
pc_after_cache_write == "create_current"

NewInvocation(config, arg, skip_cache) ==
    [ config |-> light_swap(config),   \* the Config after the flags and the swap
      arg |-> arg, skip_cache |-> skip_cache,
      image |-> <<>>, cache_name |-> "", cs |-> None, buf |-> "",
      outcome |-> "",                  \* no_image, error, panic, hit, miss, skip
      generated |-> FALSE,             \* generate_colorscheme was called
      fs0 |-> <<cache, current, preview>>,   \* the files when the run started
      hit0 |-> FALSE ]                 \* the cache entry existed when the run started

RunConfigs ==
    { DefaultConfig,
      [DefaultConfig EXCEPT !.backend = "Colorthief", !.light = TRUE, !.bg_idx = 3] }
RunArgs == { <<>>, <<PathNope>>, <<PathEmpty>>, <<PathA>>, <<PathAX>>, <<PathBX>> }
RunLibs == { [thief_err |-> FALSE, merge |-> 0], [thief_err |-> TRUE, merge |-> 1] }

\* last: the most recent run that did not fail; origin: for each cache entry,
\* the Config and image of the run that created it.
NoHistory == [last |-> [how |-> "none"], origin |-> <<>>]

\* main.rs 43-170: flags and config read; the run has its inputs.
Start(p) ==
    /\ pc[p] \in {"idle", "exit", "panicked"}
    /\ \E config \in RunConfigs : \E arg \in RunArgs : \E skip_cache \in BOOLEAN :
          inv' = [inv EXCEPT ![p] = NewInvocation(config, arg, skip_cache)]
    /\ pc' = [pc EXCEPT ![p] = "begin"]
    /\ UNCHANGED <<fsVars, hist, keyVars, mixVars, synVars, beVars, stVars, sortVars>>

\* main.rs 172-195: no -i, a path that does not exist, a directory without images.
BeginNoImage(p) ==
    /\ pc[p] = "begin"
    /\ selected_images(inv[p].arg) = {}
    /\ inv' = [inv EXCEPT ![p].outcome = "no_image"]
    /\ pc' = [pc EXCEPT ![p] = "exit"]
    /\ UNCHANGED <<fsVars, hist, keyVars, mixVars, synVars, beVars, stVars, sortVars>>

\* main.rs 172-239, 268-275: the image (a random one of a directory), the cache
\* file name, and the branch on -c.
BeginImage(p) ==
    /\ pc[p] = "begin"
    /\ \E image \in selected_images(inv[p].arg) :
          LET name == cache_name(inv[p].config, base_name(image))
          IN  inv' = [inv EXCEPT ![p].image = image,
                                 ![p].cache_name = name,
                                 ![p].hit0 = name \in DOMAIN cache]
    /\ pc' = [pc EXCEPT ![p] = IF inv[p].skip_cache THEN "generate" ELSE "check_cache"]
    /\ UNCHANGED <<fsVars, hist, keyVars, mixVars, synVars, beVars, stVars, sortVars>>

\* main.rs 277: if cache_path.exists()
CheckCache(p) ==
    /\ pc[p] = "check_cache"
    /\ LET hit == cache_hit(cache, inv[p].cache_name)
       IN  /\ pc' = [pc EXCEPT ![p] = IF hit THEN "copy_open" ELSE "generate"]
           /\ inv' = [inv EXCEPT ![p].outcome = IF hit THEN "hit" ELSE ""]
           /\ hist' = IF hit
                      THEN [hist EXCEPT !.last =
                               [config |-> inv[p].config, image |-> inv[p].image,
                                how |-> "hit", key |-> inv[p].cache_name]]
                      ELSE hist
    /\ UNCHANGED <<fsVars, keyVars, mixVars, synVars, beVars, stVars, sortVars>>

\* main.rs 279, fs::copy: the entry is opened, the current file created or truncated.
CopyOpen(p) ==
    /\ pc[p] = "copy_open"
    /\ current' = [exists |-> TRUE, data |-> ""]
    /\ pc' = [pc EXCEPT ![p] = "copy_read"]
    /\ UNCHANGED <<cache, preview, inv, hist, keyVars, mixVars, synVars, beVars, stVars, sortVars>>

\* fs::copy: the entry's bytes are read.
CopyRead(p) ==
    /\ pc[p] = "copy_read"
    /\ inv' = [inv EXCEPT ![p].buf = cache[inv[p].cache_name]]
    /\ pc' = [pc EXCEPT ![p] = "copy_write"]
    /\ UNCHANGED <<fsVars, hist, keyVars, mixVars, synVars, beVars, stVars, sortVars>>

\* fs::copy: the bytes read are written to the current file; main returns.
CopyWrite(p) ==
    /\ pc[p] = "copy_write"
    /\ current' = [exists |-> TRUE, data |-> copy_data(current.data, inv[p].buf)]
    /\ pc' = [pc EXCEPT ![p] = "exit"]
    /\ UNCHANGED <<cache, preview, inv, hist, keyVars, mixVars, synVars, beVars, stVars, sortVars>>

\* main.rs 242-248, 284-290: rwal.generate_colorscheme(&image)
Generate(p) ==
    /\ pc[p] = "generate"
    /\ LET r == generate_colorscheme(rwal_of(inv[p].config),
                                     ImageFiles[inv[p].image], quantLib)
           how == IF inv[p].skip_cache THEN "skip" ELSE "miss"
       IN  /\ inv' = [inv EXCEPT
                  ![p].generated = TRUE,
                  ![p].cs = IF r.kind = "Ok" THEN r.cs ELSE None,
                  ![p].outcome = IF r.kind = "Ok" THEN how
                                 ELSE IF r.kind = "Err" THEN "error" ELSE "panic"]
           /\ pc' = [pc EXCEPT ![p] =
                  IF r.kind = "Ok" THEN "create_preview"
                  ELSE IF r.kind = "Err" THEN pc_after_error ELSE "panicked"]
           /\ hist' = IF r.kind = "Ok"
                      THEN [hist EXCEPT !.last =
                               [config |-> inv[p].config, image |-> inv[p].image,
                                how |-> how, key |-> inv[p].cache_name]]
                      ELSE hist
    /\ UNCHANGED <<fsVars, keyVars, mixVars, synVars, beVars, stVars, sortVars>>

\* main.rs 250, 292: fs::write(HTML_PREVIEW_FILE, ..), the create
CreatePreview(p) ==
    /\ pc[p] = "create_preview"
    /\ preview' = [exists |-> TRUE, data |-> ""]
    /\ pc' = [pc EXCEPT ![p] = "write_preview"]
    /\ UNCHANGED <<cache, current, inv, hist, keyVars, mixVars, synVars, beVars, stVars, sortVars>>

\* main.rs 250-253, 292-295: fs::write(HTML_PREVIEW_FILE, ..), the write
WritePreview(p) ==
    /\ pc[p] = "write_preview"
    /\ preview' = [exists |-> TRUE,
                   data |-> write_at_start(preview.data, html_preview(inv[p].cs))]
    /\ pc' = [pc EXCEPT ![p] = pc_after_preview(inv[p].skip_cache)]
    /\ UNCHANGED <<cache, current, inv, hist, keyVars, mixVars, synVars, beVars, stVars, sortVars>>

\* main.rs 297: fs::write(&cache_path, ..), the create
CreateCache(p) ==
    /\ pc[p] = "create_cache"
    /\ cache' = (inv[p].cache_name :> "") @@ cache
    /\ hist' = IF inv[p].cache_name \in DOMAIN cache THEN hist
               ELSE [hist EXCEPT !.origin =
                       (inv[p].cache_name :>
                           [config |-> inv[p].config, image |-> inv[p].image]) @@ @]
    /\ pc' = [pc EXCEPT ![p] = "write_cache"]
    /\ UNCHANGED <<current, preview, inv, keyVars, mixVars, synVars, beVars, stVars, sortVars>>

\* main.rs 297-305: fs::write(&cache_path, ..), the write
WriteCache(p) ==
    /\ pc[p] = "write_cache"
    /\ cache' = [cache EXCEPT ![inv[p].cache_name] =
                    write_at_start(@, colorscheme_file(inv[p].cs))]
    /\ pc' = [pc EXCEPT ![p] = pc_after_cache_write]
    /\ UNCHANGED <<current, preview, inv, hist, keyVars, mixVars, synVars, beVars, stVars, sortVars>>

\* main.rs 255, 307: fs::write(CURRENT_COLORSCHEME_FILE, ..), the create
CreateCurrent(p) ==
    /\ pc[p] = "create_current"
    /\ current' = [exists |-> TRUE, data |-> ""]
    /\ pc' = [pc EXCEPT ![p] = "write_current"]
    /\ UNCHANGED <<cache, preview, inv, hist, keyVars, mixVars, synVars, beVars, stVars, sortVars>>

\* main.rs 255-265, 307-316: fs::write(CURRENT_COLORSCHEME_FILE, ..), the write
WriteCurrent(p) ==
    /\ pc[p] = "write_current"
    /\ current' = [exists |-> TRUE,
                   data |-> write_at_start(current.data, colorscheme_file(inv[p].cs))]
    /\ pc' = [pc EXCEPT ![p] = "exit"]
    /\ UNCHANGED <<cache, preview, inv, hist, keyVars, mixVars, synVars, beVars, stVars, sortVars>>

Step(p) ==
    \/ BeginNoImage(p) \/ BeginImage(p) \/ CheckCache(p)
    \/ CopyOpen(p) \/ CopyRead(p) \/ CopyWrite(p)
    \/ Generate(p)
    \/ CreatePreview(p) \/ WritePreview(p)
    \/ CreateCache(p) \/ WriteCache(p)
    \/ CreateCurrent(p) \/ WriteCurrent(p)

(***************************************************************************)
(* Spec: invocations one after another, on an initially empty cache dir    *)
(***************************************************************************)
Init ==
    /\ cache = <<>> /\ current = NoFile /\ preview = NoFile
    /\ pc = [p \in Procs |-> IF p = 1 THEN "idle" ELSE "off"]
    /\ inv = [p \in Procs |-> NewInvocation(DefaultConfig, <<>>, FALSE)]
    /\ hist = NoHistory
    /\ IdleKey /\ IdleMix /\ IdleSyn /\ IdleSt /\ IdleSort
    /\ beKind = "" /\ beColors = <<>> /\ beOut = None
    /\ quantLib \in RunLibs

Next == Start(1) \/ Step(1)
Spec == Init /\ [][Next]_vars

AtRest(p) == pc[p] \in {"idle", "exit", "panicked", "off"}

\* The file the pipeline gives for a Config (after the swap) and an image.
PipelineFile(config, image) ==
    LET r == generate_colorscheme(rwal_of(config), ImageFiles[image], quantLib)
    IN  IF r.kind = "Ok" THEN colorscheme_file(r.cs) ELSE "no colorscheme"

\* 16 lines of 7 characters and 15 line breaks
ColorschemeFileLen == 16 * 7 + 15

\* C1: in a run without -c that finds the cache entry of its key present, the
\* pipeline (generate_colorscheme) is not invoked, the entry is left as it was,
\* and when the run is over the current-colorscheme file is a copy of it.
C1_CacheHitCopies ==
    \A p \in Procs :
        (~inv[p].skip_cache /\ inv[p].hit0) =>
            /\ ~inv[p].generated
            /\ cache[inv[p].cache_name] = inv[p].fs0[1][inv[p].cache_name]
            /\ pc[p] = "exit" =>
                  current = [exists |-> TRUE, data |-> cache[inv[p].cache_name]]

C1_Witness ==
    /\ pc[1] = "exit" /\ ~inv[1].skip_cache /\ inv[1].hit0
    /\ current.data # inv[1].fs0[2].data
    /\ current.data = cache[inv[1].cache_name]

\* C2: in a run without -c that finds no cache entry and whose pipeline
\* succeeds, the current-colorscheme file is not touched before the cache entry
\* holds the colorscheme, and when the run is over both files hold the same 16
\* lines "#rrggbb", t0 first and t15 last.
C2_CacheBeforeCurrent ==
    \A p \in Procs :
        (~inv[p].skip_cache /\ inv[p].outcome = "miss") =>
            LET cs == inv[p].cs
                lines == << rgb_to_hex(cs.t0), rgb_to_hex(cs.t1), rgb_to_hex(cs.t2),
                            rgb_to_hex(cs.t3), rgb_to_hex(cs.t4), rgb_to_hex(cs.t5),
                            rgb_to_hex(cs.t6), rgb_to_hex(cs.t7), rgb_to_hex(cs.t8),
                            rgb_to_hex(cs.t9), rgb_to_hex(cs.t10), rgb_to_hex(cs.t11),
                            rgb_to_hex(cs.t12), rgb_to_hex(cs.t13), rgb_to_hex(cs.t14),
                            rgb_to_hex(cs.t15) >>
                entry == inv[p].cache_name
            IN  /\ pc[p] \in {"create_preview", "write_preview", "create_cache", "write_cache"}
                      => current = inv[p].fs0[2]
                /\ pc[p] \in {"create_current", "write_current", "exit"}
                      => /\ entry \in DOMAIN cache
                         /\ cache[entry] = join_newline(lines)
                         /\ Len(cache[entry]) = ColorschemeFileLen
                /\ pc[p] = "exit"
                      => current = [exists |-> TRUE, data |-> cache[entry]]

C2_Witness ==
    /\ pc[1] = "exit" /\ inv[1].outcome = "miss"
    /\ inv[1].fs0[2].exists /\ current # inv[1].fs0[2]
    /\ inv[1].cs.t0 # inv[1].cs.t15

\* C3: a run that ends for lack of an image (no -i, a path that does not exist,
\* a directory without images) or in an error of generate_colorscheme leaves the
\* cache entries, the current-colorscheme file and the preview as they were when
\* it started, with or without -c.
C3_FailureWritesNothing ==
    \A p \in Procs :
        inv[p].outcome \in {"no_image", "error"} =>
            <<cache, current, preview>> = inv[p].fs0

C3_Witness ==
    /\ pc[1] = "exit" /\ inv[1].outcome = "error" /\ ~inv[1].skip_cache
    /\ current.exists /\ preview.exists /\ cache # <<>>

\* C4 as claimed: between runs the current-colorscheme file holds what the
\* pipeline computes for the image and settings of the most recent run that
\* did not fail.
C4_CurrentIsLastRunsPipeline ==
    (AtRest(1) /\ hist.last.how # "none") =>
        current.data = PipelineFile(hist.last.config, hist.last.image)

\* C4 as amended: between runs the current-colorscheme file holds what the
\* pipeline computed in the most recent run that did not fail when that run was
\* a cache miss or a -c run; when it was a cache hit, the file holds the entry
\* stored under the run's key: what the pipeline computed for the image and
\* settings of the run that created the entry, which have the same key.
C4_CurrentIsLastComputed ==
    (AtRest(1) /\ hist.last.how # "none") =>
        IF hist.last.how = "hit"
        THEN LET o == hist.origin[hist.last.key]
             IN  /\ current.data = PipelineFile(o.config, o.image)
                 /\ cache_name(o.config, base_name(o.image)) = hist.last.key
        ELSE current.data = PipelineFile(hist.last.config, hist.last.image)

C4_Witness ==
    /\ AtRest(1) /\ hist.last.how = "hit"
    /\ hist.origin[hist.last.key].image # hist.last.image
    /\ current.data # PipelineFile(hist.last.config, hist.last.image)

(***************************************************************************)
(* SpecRace: two invocations with the same settings and image at once      *)
(***************************************************************************)
RaceArgs == { <<PathAX>>, <<PathFew>>, <<PathBad>>, <<PathNope>> }

\* The files an earlier run with another image may have left.
RaceOldFile ==
    [ exists |-> TRUE,
      data |-> colorscheme_file(
          generate_colorscheme(rwal_of(DefaultConfig), ImageFiles[PathBX],
                               [thief_err |-> FALSE, merge |-> 0]).cs) ]

RaceInit ==
    /\ quantLib \in RunLibs
    /\ cache = <<>>
    /\ current \in {NoFile, RaceOldFile}
    /\ preview = NoFile
    /\ \E config \in RunConfigs : \E arg \in RaceArgs :
          inv = [p \in Procs |-> NewInvocation(config, arg, FALSE)]
    /\ pc = [p \in Procs |-> "begin"]
    /\ hist = NoHistory
    /\ IdleKey /\ IdleMix /\ IdleSyn /\ IdleSt /\ IdleSort
    /\ beKind = "" /\ beColors = <<>> /\ beOut = None

RaceNext == \E p \in Procs : Step(p)
SpecRace == RaceInit /\ [][RaceNext]_vars

\* C10: two runs without -c, same settings and image, interleaved in any way:
\* once both are over (neither failed), the cache entry and the
\* current-colorscheme file each hold the whole 16-line colorscheme a single
\* run produces.
C10_RaceBenign ==
    ((\A p \in Procs : pc[p] = "exit" /\ inv[p].outcome \in {"hit", "miss"})
        /\ inv[1].config = inv[2].config /\ inv[1].image = inv[2].image) =>
        LET whole == PipelineFile(inv[1].config, inv[1].image)
        IN  /\ Len(whole) = ColorschemeFileLen
            /\ inv[1].cache_name \in DOMAIN cache
            /\ cache[inv[1].cache_name] = whole
            /\ current = [exists |-> TRUE, data |-> whole]

\* One run missed and wrote; the other found the entry just created, read it
\* while it was still empty, and both are over.
C10_Witness ==
    /\ pc[1] = "exit" /\ pc[2] = "exit"
    /\ inv[1].outcome = "miss" /\ inv[2].outcome = "hit" /\ inv[2].buf = ""
    /\ current.data = colorscheme_file(inv[1].cs)

(***************************************************************************)
(* config.rs / main.rs: from the config file and the flags to the Config   *)
(***************************************************************************)
\* config.rs 116-120: (0.0..1.0).contains(&value), a half-open range
in_unit_range(v) == 0 <= v /\ v < 100

\* Config::validate
validate(c) ==
    /\ c.thumb_w >= 1 /\ c.thumb_h >= 1
    /\ c.bg_idx <= 7 /\ c.fg_idx <= 7
    /\ c.bg_strength <= 100 /\ c.fg_strength <= 100
    /\ \A v \in { c.clamp_value_min, c.clamp_value_max,
                  c.clamp_saturation_min, c.clamp_saturation_max,
                  c.skip_value_min, c.skip_value_max,
                  c.skip_saturation_min, c.skip_saturation_max } : in_unit_range(v)
    /\ c.clamp_value_min <= c.clamp_value_max
    /\ c.clamp_saturation_min <= c.clamp_saturation_max
    /\ c.skip_value_min <= c.skip_value_max
    /\ c.skip_saturation_min <= c.skip_saturation_max

\* main.rs 63-73: Config::from_file, or the default when it fails.
load_config(file) ==
    IF file.kind = "toml" /\ validate(file.config) THEN file.config ELSE DefaultConfig

\* impl From<String> for Backend
backend_from(value) ==
    IF value \in {"colorthief", "ColorThief"} THEN "Colorthief" ELSE "ColorZ"

\* Ord::clamp / f32::clamp with constant bounds
clamp(v, lo, hi) == IF v < lo THEN lo ELSE IF v > hi THEN hi ELSE v

\* `v as u8` of a u32
as_u8(v) == v % U8

\* flag.get_x(..).unwrap_or(old): flag is <<>> or <<value>>
unwrap_or(flag, old) == IF flag = <<>> THEN old ELSE flag[1]

\* flag.get_x(..).map(|v| v.clamp(lo, hi)).unwrap_or(old)
clamped_or(flag, lo, hi, old) == IF flag = <<>> THEN old ELSE clamp(flag[1], lo, hi)

\* flag.get_u32(..).map(|v| v as u8).unwrap_or(old)
as_u8_or(flag, old) == IF flag = <<>> THEN old ELSE as_u8(flag[1])

\* main.rs 77-166: the flags over the Config (the swap of 168-170 is light_swap).
apply_flags(config, flags) ==
    [ backend |-> IF flags.backend = <<>> THEN config.backend
                  ELSE backend_from(flags.backend[1]),
      thumb_w |-> clamped_or(flags.thumb_w, 1, 99999, config.thumb_w),
      thumb_h |-> clamped_or(flags.thumb_h, 1, 99999, config.thumb_h),
      clamp_saturation_min |->
          clamped_or(flags.clamp_s_min, 0, 100, config.clamp_saturation_min),
      clamp_saturation_max |->
          clamped_or(flags.clamp_s_max, 0, 100, config.clamp_saturation_max),
      clamp_value_min |->
          clamped_or(flags.clamp_v_min, 0, 100, config.clamp_value_min),
      clamp_value_max |->
          clamped_or(flags.clamp_v_max, 0, 100, config.clamp_value_max),
      skip_saturation_min |->
          clamped_or(flags.skip_s_min, 0, 100, config.skip_saturation_min),
      skip_saturation_max |->
          clamped_or(flags.skip_s_max, 0, 100, config.skip_saturation_max),
      skip_value_min |->
          clamped_or(flags.skip_v_min, 0, 100, config.skip_value_min),
      skip_value_max |->
          clamped_or(flags.skip_v_max, 0, 100, config.skip_value_max),
      bg_color |-> unwrap_or(flags.bg, config.bg_color),
      fg_color |-> unwrap_or(flags.fg, config.fg_color),
      bg_idx |-> unwrap_or(flags.bg_idx, config.bg_idx),
      fg_idx |-> unwrap_or(flags.fg_idx, config.fg_idx),
      bg_strength |-> as_u8_or(flags.bg_str, config.bg_strength),
      fg_strength |-> as_u8_or(flags.fg_str, config.fg_strength),
      skip_value |-> config.skip_value \/ flags.skip_value,
      skip_saturation |-> config.skip_saturation \/ flags.skip_saturation,
      clamp_value |-> config.clamp_value \/ flags.clamp_value,
      clamp_saturation |-> config.clamp_saturation \/ flags.clamp_saturation,
      light |-> config.light \/ flags.light ]

\* A command line without any of the flags.
NoFlags ==
    [ backend |-> <<>>, thumb_w |-> <<>>, thumb_h |-> <<>>,
      clamp_s_min |-> <<>>, clamp_s_max |-> <<>>, clamp_v_min |-> <<>>, clamp_v_max |-> <<>>,
      skip_s_min |-> <<>>, skip_s_max |-> <<>>, skip_v_min |-> <<>>, skip_v_max |-> <<>>,
      bg |-> <<>>, fg |-> <<>>, bg_idx |-> <<>>, fg_idx |-> <<>>,
      bg_str |-> <<>>, fg_str |-> <<>>,
      skip_value |-> FALSE, skip_saturation |-> FALSE, clamp_value |-> FALSE,
      clamp_saturation |-> FALSE, light |-> FALSE ]

(***************************************************************************)
(* SpecPipeline: one invocation, from the config file and the command line *)
(* to what generate_colorscheme returns for the decoded image              *)
(***************************************************************************)
\* Config files: none, two that validate, and three that validate rejects
\* (an index of 8, a bound of 1.0, a minimum above its maximum).
StFiles ==
    { [kind |-> "missing"],
      [kind |-> "toml",
       config |-> [DefaultConfig EXCEPT !.bg_idx = 7, !.fg_idx = 3,
                                        !.bg_strength = 100, !.fg_strength = 0,
                                        !.skip_value = TRUE,
                                        !.skip_value_min = 20, !.skip_value_max = 80]],
      [kind |-> "toml",
       config |-> [DefaultConfig EXCEPT !.skip_saturation = FALSE,
                                        !.clamp_saturation = FALSE,
                                        !.clamp_value = FALSE]],
      [kind |-> "toml", config |-> [DefaultConfig EXCEPT !.bg_idx = 8]],
      [kind |-> "toml", config |-> [DefaultConfig EXCEPT !.clamp_saturation_max = 100]],
      [kind |-> "toml", config |-> [DefaultConfig EXCEPT !.clamp_value_min = 60]] }

StFlagSets ==
    { NoFlags,
      [NoFlags EXCEPT !.bg_idx = <<7>>, !.fg_idx = <<1>>],
      [NoFlags EXCEPT !.bg_idx = <<8>>],
      [NoFlags EXCEPT !.fg_idx = <<9>>, !.backend = <<"colorthief">>],
      [NoFlags EXCEPT !.bg_str = <<100>>, !.fg_str = <<50>>, !.light = TRUE],
      [NoFlags EXCEPT !.bg_str = <<300>>],
      [NoFlags EXCEPT !.clamp_s_min = <<90>>],
      [NoFlags EXCEPT !.clamp_s_min = <<-50>>, !.clamp_s_max = <<250>>,
                      !.clamp_v_min = <<30>>, !.clamp_v_max = <<30>>],
      [NoFlags EXCEPT !.clamp_v_max = <<20>>, !.backend = <<"ColorThief">>],
      [NoFlags EXCEPT !.skip_value = TRUE, !.skip_v_min = <<20>>, !.skip_v_max = <<80>>],
      [NoFlags EXCEPT !.skip_s_min = <<50>>, !.skip_s_max = <<50>>],
      [NoFlags EXCEPT !.skip_s_min = <<50>>, !.skip_s_max = <<50>>,
                      !.backend = <<"colorthief">>],
      [NoFlags EXCEPT !.skip_s_min = <<0>>, !.skip_s_max = <<100>>,
                      !.thumb_w = <<0>>, !.thumb_h = <<4>>] }

\* Samples on, beside and between the bounds 0.3 / 0.7 (saturation) and
\* 0.2 / 0.8 (value).
ImgBounds ==
    << <<100, 70, 70>>, <<100, 30, 30>>, <<100, 50, 50>>, <<51, 30, 30>>,
       <<204, 100, 100>>, <<203, 100, 100>>, <<255, 255, 255>>, <<100, 71, 71>>,
       <<100, 69, 69>>, <<50, 30, 30>> >>

StImages == { ImgA, ImgB, ImgBounds }

PipelineInit ==
    /\ stFile \in StFiles
    /\ stFlags \in StFlagSets
    /\ stPixels \in StImages
    /\ quantLib \in RunLibs
    /\ stConfig = DefaultConfig /\ stPc = "load"
    /\ stKept = <<>> /\ stPrepared = None /\ stResult = None
    /\ beKind = "" /\ beColors = <<>> /\ beOut = None
    /\ IdleFs /\ IdleRun /\ IdleKey /\ IdleMix /\ IdleSyn /\ IdleSort

\* main.rs 63-73
LoadConfig ==
    /\ stPc = "load"
    /\ stConfig' = load_config(stFile)
    /\ stPc' = "flags"
    /\ UNCHANGED <<stFile, stFlags, stPixels, stKept, stPrepared, stResult>>
    /\ UNCHANGED <<fsVars, runVars, keyVars, mixVars, synVars, beVars, sortVars>>

\* main.rs 75-170
ReadFlags ==
    /\ stPc = "flags"
    /\ stConfig' = light_swap(apply_flags(stConfig, stFlags))
    /\ stPc' = "run"
    /\ UNCHANGED <<stFile, stFlags, stPixels, stKept, stPrepared, stResult>>
    /\ UNCHANGED <<fsVars, runVars, keyVars, mixVars, synVars, beVars, sortVars>>

\* main.rs 206-229 and rwal.generate_colorscheme(&image); stKept and stPrepared
\* are the values inside prepare_colors.
RunPipeline ==
    /\ stPc = "run"
    /\ LET rwal == rwal_of(stConfig)
           img  == resize_exact(stPixels, rwal.image_resize[1], rwal.image_resize[2])
           kept == select_skip(rwal, to_hsv(img))
           prep == prepare_colors(rwal, img)
       IN  /\ stKept' = kept
           /\ stPrepared' = IF prep.kind = "Ok"
                            THEN [kind |-> "Ok", hsv |-> clamped_samples(rwal, kept),
                                  colors |-> prep.colors]
                            ELSE [kind |-> "Panic"]
           /\ stResult' = generate_colorscheme(
                              rwal, [decodable |-> TRUE, pixels |-> stPixels], quantLib)
    /\ stPc' = "done"
    /\ UNCHANGED <<stFile, stFlags, stConfig, stPixels>>
    /\ UNCHANGED <<fsVars, runVars, keyVars, mixVars, synVars, beVars, sortVars>>

PipelineNext == LoadConfig \/ ReadFlags \/ RunPipeline
SpecPipeline == PipelineInit /\ [][PipelineNext]_vars

\* The flags have been read: stConfig is the Config the Rwal is built from.
FlagsRead == stPc \in {"run", "done"}

\* C11: once the file and the flags are read, bg_idx and fg_idx are in 0..7 and
\* bg_strength and fg_strength in 0..100, a strength given by a flag being the
\* number given, and palette[bg_idx] / palette[fg_idx] never panics.
C11_AccentsInRange ==
    /\ FlagsRead =>
          /\ stConfig.bg_idx \in 0..7 /\ stConfig.fg_idx \in 0..7
          /\ stConfig.bg_strength \in 0..100 /\ stConfig.fg_strength \in 0..100
          /\ stFlags.bg_str # <<>> => stConfig.bg_strength = stFlags.bg_str[1]
          /\ stFlags.fg_str # <<>> => stConfig.fg_strength = stFlags.fg_str[1]
    /\ (stPc = "done" /\ stPrepared.kind = "Ok") => stResult.kind # "Panic"

\* C12: once the file and the flags are read, each of the four (min, max) pairs
\* lies in [0.0, 1.0] with min <= max, and the clamp of prepare_colors is never
\* called with min > max.
C12_BoundsOrdered ==
    /\ FlagsRead =>
          /\ \A v \in { stConfig.clamp_value_min, stConfig.clamp_value_max,
                        stConfig.clamp_saturation_min, stConfig.clamp_saturation_max,
                        stConfig.skip_value_min, stConfig.skip_value_max,
                        stConfig.skip_saturation_min, stConfig.skip_saturation_max } :
                 0 <= v /\ v <= 100
          /\ stConfig.clamp_value_min <= stConfig.clamp_value_max
          /\ stConfig.clamp_saturation_min <= stConfig.clamp_saturation_max
          /\ stConfig.skip_value_min <= stConfig.skip_value_max
          /\ stConfig.skip_saturation_min <= stConfig.skip_saturation_max
    /\ stPc = "done" => stPrepared.kind # "Panic"

\* The samples prepare_colors is given, as HSV.
StSamples ==
    to_hsv(resize_exact(stPixels, stConfig.thumb_w, stConfig.thumb_h))

\* a / b < c / d and a / b = c / d, for positive b and d
RatLess(a, b, c, d) == a * d < c * b
RatEq(a, b, c, d) == a * d = c * b

\* The filter rule as the claims state it, on the settings of the Config.
StrictlyInside(h) ==
    /\ \/ ~stConfig.skip_saturation
       \/ /\ RatLess(stConfig.skip_saturation_min, 100, h.sn, h.sd)
          /\ RatLess(h.sn, h.sd, stConfig.skip_saturation_max, 100)
    /\ \/ ~stConfig.skip_value
       \/ /\ RatLess(stConfig.skip_value_min, 100, h.vn, h.vd)
          /\ RatLess(h.vn, h.vd, stConfig.skip_value_max, 100)

ClampedTo(on, x, xd, lo, hi, y, yd) ==
    IF ~on THEN RatEq(y, yd, x, xd)
    ELSE /\ RatLess(x, xd, lo, 100) => RatEq(y, yd, lo, 100)
         /\ RatLess(hi, 100, x, xd) => RatEq(y, yd, hi, 100)
         /\ (~RatLess(x, xd, lo, 100) /\ ~RatLess(hi, 100, x, xd)) => RatEq(y, yd, x, xd)

\* C14: prepare_colors filters on the unclamped saturation and value and clamps
\* only the samples that pass: each of them comes out with s (v) equal to min
\* when below min, to max when above max, unchanged when inside or when the
\* clamp toggle is off.
C14_ClampAfterFilter ==
    stPc = "done" =>
        /\ stKept = SelectSeq(StSamples, StrictlyInside)
        /\ stPrepared.kind = "Ok"
        /\ Len(stPrepared.hsv) = Len(stKept)
        /\ \A i \in 1..Len(stKept) :
              /\ ClampedTo(stConfig.clamp_saturation, stKept[i].sn, stKept[i].sd,
                           stConfig.clamp_saturation_min, stConfig.clamp_saturation_max,
                           stPrepared.hsv[i].sn, stPrepared.hsv[i].sd)
              /\ ClampedTo(stConfig.clamp_value, stKept[i].vn, stKept[i].vd,
                           stConfig.clamp_value_min, stConfig.clamp_value_max,
                           stPrepared.hsv[i].vn, stPrepared.hsv[i].vd)

\* C16: prepare_colors never fails, and when the filters remove every sample
\* generate_colorscheme returns "Failed to generate palette" (the backend
\* returned None; ordering and synthesis are not reached).
C16_EmptyInputFails ==
    stPc = "done" =>
        /\ stPrepared.kind = "Ok"
        /\ Len(stKept) = 0 =>
              stResult = [kind |-> "Err", err |-> "Failed to generate palette"]

(***************************************************************************)
(* SpecSort: sort_by_hue on palettes of up to MaxSortLen colours           *)
(***************************************************************************)
MaxSortLen == 3

\* Hues 0 (twice), 60, 120, 180, 240, 300 degrees, and a grey.
SortColors ==
    { <<200, 100, 100>>, <<100, 50, 50>>, <<200, 200, 100>>, <<100, 200, 100>>,
      <<100, 200, 200>>, <<100, 100, 200>>, <<200, 100, 200>>, <<128, 128, 128>> }

SortInit ==
    /\ sortIn \in UNION { [1..n -> SortColors] : n \in 0..MaxSortLen }
    /\ sortOut = [called |-> FALSE]
    /\ IdleFs /\ IdleRun /\ IdleKey /\ IdleMix /\ IdleSyn /\ IdleBe /\ IdleSt

\* rwal.rs 104 and 110: generate_colorscheme sorts the palette, and sorts the
\* result again.
SortByHue ==
    /\ ~sortOut.called
    /\ sortOut' = [called |-> TRUE, once |-> sort_by_hue(sortIn),
                   twice |-> sort_by_hue(sort_by_hue(sortIn))]
    /\ UNCHANGED sortIn
    /\ UNCHANGED <<fsVars, runVars, keyVars, mixVars, synVars, beVars, stVars>>

SortNext == SortByHue
SpecSort == SortInit /\ [][SortNext]_vars

\* The hue of a colour in [0, 360), as sixths of a turn: <<numerator, denominator>>.
PositiveHue(c) ==
    LET h == rgb_to_hsv(c) IN <<h.hn % (6 * h.hd), h.hd>>

HueBefore(c, d) ==
    RatLess(PositiveHue(c)[1], PositiveHue(c)[2], PositiveHue(d)[1], PositiveHue(d)[2])

\* out is seq in ascending order of the hue in [0, 360), equal hues in the order of seq.
StablyAscending(seq, out) ==
    /\ Len(out) = Len(seq)
    /\ \E p \in [1..Len(seq) -> 1..Len(seq)] :
          /\ \A k \in 1..Len(seq) : out[k] = seq[p[k]]
          /\ \A k, l \in 1..Len(seq) :
                k < l => \/ HueBefore(seq[p[k]], seq[p[l]])
                         \/ /\ ~HueBefore(seq[p[l]], seq[p[k]])
                            /\ p[k] < p[l]

\* C15: sort_by_hue returns the same colours in ascending order of the hue in
\* [0, 360), equal hues in their original order; a palette of strictly
\* increasing hues comes back unchanged; sorting twice gives what sorting
\* once gives.
C15_SortByHue ==
    sortOut.called =>
        /\ StablyAscending(sortIn, sortOut.once)
        /\ (\A k \in 1..(Len(sortIn) - 1) : HueBefore(sortIn[k], sortIn[k + 1]))
              => sortOut.once = sortIn
        /\ sortOut.twice = sortOut.once

(***************************************************************************)
(* Spec: the cache entries over a sequence of runs                         *)
(***************************************************************************)
\* C17: in every run the entries that existed when it started are all still
\* there with the contents they had; an entry is added only by a run without
\* -c that found none for its key and whose pipeline succeeded, and it is the
\* entry of that key; a run with -c leaves the cache directory as it is and
\* reads no entry.
C17_CacheEntriesFrozen ==
    \A p \in {q \in Procs : pc[q] # "off"} :
        LET before == inv[p].fs0[1] IN
        /\ \A k \in DOMAIN before : k \in DOMAIN cache /\ cache[k] = before[k]
        /\ DOMAIN cache # DOMAIN before =>
              /\ ~inv[p].skip_cache /\ ~inv[p].hit0
              /\ inv[p].outcome = "miss" /\ inv[p].cs # None
              /\ DOMAIN cache = DOMAIN before \cup {inv[p].cache_name}
        /\ inv[p].outcome \in {"hit", "skip", "error", "panic", "no_image"} =>
              cache = before
        /\ inv[p].skip_cache => cache = before /\ inv[p].buf = ""
        /\ (pc[p] = "exit" /\ inv[p].outcome = "miss") =>
              cache[inv[p].cache_name] = colorscheme_file(inv[p].cs)

\* Runs of each kind that ended with entries of earlier runs in the cache.
C17_Witness ==
    /\ pc[1] = "exit" /\ inv[1].fs0[1] # <<>>
    /\ \/ inv[1].outcome = "hit" /\ current # inv[1].fs0[2]
       \/ inv[1].outcome = "skip" /\ inv[1].cache_name \in DOMAIN cache
                                  /\ current.data # cache[inv[1].cache_name]
       \/ inv[1].outcome = "miss" /\ Cardinality(DOMAIN cache) >= 2

====
